---- MODULE Spec2Model ----
(***************************************************************************)
(* Meal Prep Assistant (src/script.js): the submission controller, the AI  *)
(* client with its local fallback, the transcript, the status line with    *)
(* its expiry timers and the speech capture adapter, as one state machine. *)
(*                                                                         *)
(* A JavaScript string is a sequence of one-character strings, so that     *)
(* trim, toLowerCase and includes are computed.  Texts that the program    *)
(* only passes around (status messages, API replies, canned templates)     *)
(* are sequences of fragments: '' is <<>>, and a template literal is the   *)
(* sequence of its pieces.                                                 *)
(***************************************************************************)
EXTENDS Integers, Sequences, FiniteSets

(* ------------------------------ bounds --------------------------------- *)

\* accepted submissions per run
MaxSubmits == 2
\* status expiry timers pending at once
MaxTimers == 1

(* ------------------------------ strings -------------------------------- *)

\* what String.prototype.trim strips: ECMAScript WhiteSpace (TAB, VT, FF, SP,
\* NBSP, ZWNBSP and the Unicode space separators) and LineTerminator (LF, CR,
\* LS, PS).  A character is a UTF-16 code unit; one that cannot be written
\* in a string here is named by its code unit, "U+" and four hexadecimal
\* digits.
WhiteSpace ==
    { "\t", "U+000B", "\f", " ", "U+00A0", "U+FEFF",
      "U+1680", "U+2000", "U+2001", "U+2002", "U+2003", "U+2004", "U+2005",
      "U+2006", "U+2007", "U+2008", "U+2009", "U+200A", "U+202F", "U+205F",
      "U+3000",
      "\n", "\r", "U+2028", "U+2029" }

\* String.prototype.trim: strip leading, then trailing, white space
RECURSIVE TrimStart(_)
TrimStart(s) ==
    IF s # <<>> /\ Head(s) \in WhiteSpace THEN TrimStart(Tail(s)) ELSE s

RECURSIVE TrimEnd(_)
TrimEnd(s) ==
    IF s # <<>> /\ s[Len(s)] \in WhiteSpace
    THEN TrimEnd(SubSeq(s, 1, Len(s) - 1))
    ELSE s

\* a text taken as typed
NoTrim(s) == s

\* String.prototype.trim
Trim(s) == TrimEnd(TrimStart(s))

(* ----------------------------- toLowerCase ----------------------------- *)

Upper == <<"A","B","C","D","E","F","G","H","I","J","K","L","M",
           "N","O","P","Q","R","S","T","U","V","W","X","Y","Z">>
Lower == <<"a","b","c","d","e","f","g","h","i","j","k","l","m",
           "n","o","p","q","r","s","t","u","v","w","x","y","z">>

\* the characters of the texts below that change in toLowerCase, each with
\* what it becomes (UnicodeData.txt; SpecialCasing.txt for U+0130, which
\* becomes two code units): A to Z, E WITH ACUTE, ALPHA, DELTA, SIGMA away
\* from a word end, KELVIN SIGN, I WITH DOT ABOVE
LowercaseMapping ==
    { << Upper[i], << Lower[i] >> >> : i \in 1..26 } \cup
    { << "U+00C9", << "U+00E9" >> >>,
      << "U+0391", << "U+03B1" >> >>,
      << "U+0394", << "U+03B4" >> >>,
      << "U+03A3", << "U+03C3" >> >>,
      << "U+212A", << "k" >> >>,
      << "U+0130", << "i", "U+0307" >> >> }

\* the characters of the texts below with the property Cased
Cased ==
    { Upper[i] : i \in 1..26 } \cup { Lower[i] : i \in 1..26 } \cup
    { "U+00C9", "U+00E9", "U+0391", "U+03B1", "U+0394", "U+03B4",
      "U+03A3", "U+03C3", "U+03C2", "U+212A", "U+0130" }

\* the characters of the texts below with the property Case_Ignorable:
\* apostrophe, full stop, SOFT HYPHEN, COMBINING DOT ABOVE, U+FEFF
CaseIgnorable == { "'", ".", "U+00AD", "U+0307", "U+FEFF" }

\* the characters the texts of the model are written in: toLowerCase is
\* computed for the texts over them.  All are characters of long
\* standing, none added or reclassified in recent versions of Unicode, so
\* that the result does not depend on the version the browser carries.
Alphabet ==
    Cased \cup CaseIgnorable \cup WhiteSpace \cup
    { "0", "1", "2", "3", "4", "5", "6", "7", "8", "9", ",", "?", "!", "-" }

\* SpecialCasing.txt, Final_Sigma: before position i comes a cased letter
\* and then only case-ignorable characters, and after it no cased letter
\* comes with only case-ignorable characters between
FinalSigma(s, i) ==
    /\ \E j \in 1..(i - 1) :
          /\ s[j] \notin CaseIgnorable
          /\ s[j] \in Cased
          /\ \A k \in (j + 1)..(i - 1) : s[k] \in CaseIgnorable
    /\ ~\E j \in (i + 1)..Len(s) :
          /\ s[j] \notin CaseIgnorable
          /\ s[j] \in Cased
          /\ \A k \in (i + 1)..(j - 1) : s[k] \in CaseIgnorable

\* the lower case of each character of Alphabet, as code units
Lowercase ==
    [c \in Alphabet |->
        IF \E m \in LowercaseMapping : m[1] = c
        THEN (CHOOSE m \in LowercaseMapping : m[1] = c)[2]
        ELSE << c >>]

\* the lower case of the character at position i of s: capital sigma gives
\* the final sigma U+03C2 in the Final_Sigma context
LowerChar(s, i) ==
    IF s[i] = "U+03A3" /\ FinalSigma(s, i)
    THEN << "U+03C2" >>
    ELSE Lowercase[s[i]]

\* the sequences of a sequence, one after the other
RECURSIVE Concat(_)
Concat(ss) == IF ss = <<>> THEN <<>> ELSE Head(ss) \o Concat(Tail(ss))

\* String.prototype.toLowerCase, on a text over Alphabet
ToLowerCase(s) == Concat([i \in 1..Len(s) |-> LowerChar(s, i)])

\* String.prototype.includes
Includes(s, sub) ==
    \E i \in 0..(Len(s) - Len(sub)) : SubSeq(s, i + 1, i + Len(sub)) = sub

(* --------------------------- program constants ------------------------- *)

\* the JavaScript value undefined, as a string-typed slot can hold it
Undefined == <<"undefined">>

SYSTEM_PROMPT == <<"You are a conversational meal prep assistant. ...">>

ChildTemplate ==
    <<"Got it - you're planning meals for your family including a child.\n\nI just need a bit more information:\n* How many adults are in your household?\n* Which meals should I plan? (breakfast, lunch, dinner, snacks)\n* How many days should the meal prep cover?">>

HouseholdTemplate ==
    <<"Got it - I'm here to help with your meal prep planning.\n\nI just need a bit more information:\n* How many people are you cooking for? How many adults and how many children?\n* Which meals should I plan? (breakfast, lunch, dinner, snacks)\n* How many days should the meal prep cover?">>

GenericTemplate ==
    <<"I understand. Let me help you create a meal prep plan. Could you tell me more about your household and meal preferences?">>

Apology ==
    <<"I apologize, but I encountered an error. Please try again or check your API configuration.">>

MsgSpeechRecognized == <<"Speech recognized! Click send or speak again.">>
MsgSpeechError(e)   == <<"Error: ", e, ". Please try again.">>
MsgNotAvailable     == <<"Speech recognition not available in this browser.">>
MsgListening        == <<"Listening... Speak now!">>
MsgCouldNotStart    == <<"Could not start listening. Please try again.">>
MsgThinking         == <<"Thinking...">>
MsgFallback         == <<"API error. Using fallback mode.">>
MsgEnterMessage     == <<"Please enter a message or use the microphone.">>
MsgSubmitError(m)   == <<"Error: ", m, ". Please check your API configuration.">>
MsgKeySaved         == <<"API key saved. Ready to use!">>
MsgMockMode         == <<"Using mock mode. Set an API key for full functionality.">>
MsgReady            == <<"Ready! Click the microphone or type your message.">>

(* ------------------------------ inputs --------------------------------- *)

\* what the user can type into the text field (it starts empty)
Inputs ==
    { <<" ", "\f">>,
      <<" ", "M", "e", "a", "l", "U+00A0">> }

\* what the recognizer can hear
Transcripts == { <<"k", "i", "d", " ", "p", "l", "a", "n">> }

SpeechErrors == { "no-speech" }

\* localStorage.getItem('openai_api_key') at load: null or a stored key
StoredKeys == { <<>>, <<"s", "k">> }

\* what prompt() returns: null (cancelled), or the typed text
Null == <<"null">>
PromptAnswers == { Null, <<" ">>, <<" ", "s", "k", " ">> }

\* choices[0].message.content of a well-formed success body
Replies == { <<"Here is your weekly plan.">> }

\* how fetch settles: rejects, or resolves with response.ok true / false
FetchOutcomes == { "networkError", "ok", "notOk" }

\* how response.json() settles for a success status: rejects (not JSON),
\* a body without choices[0].message, a body whose message has no content,
\* or a well-formed body
OkBodies == { "notJson", "noChoices", "noContent", "wellFormed" }

\* how response.json() settles for a non-success status
ErrorBodies == { "notJson", "withMessage", "withoutMessage" }

(* ------------------------------- state --------------------------------- *)

VARIABLES
    phase,               \* "load": script evaluated; "running": init() has run
    apiKey,              \* CONFIG.apiKey
    useMockAI,           \* CONFIG.useMockAI
    localStorageKey,     \* localStorage 'openai_api_key'
    speechSupported,     \* window.SpeechRecognition || webkitSpeechRecognition
    marked,              \* window.marked is loaded
    recognition,         \* state.recognition is not null
    micHidden,           \* micButton.style.display = 'none'
    isListening,         \* state.isListening
    isLoading,           \* state.isLoading
    conversationHistory, \* state.conversationHistory
    textInput,           \* textInput.value
    status,              \* the status element: textContent and class 'active'
    timers,              \* pending setTimeout callbacks of updateStatus, oldest
                         \* first; each entry tells whether updateStatus has
                         \* been called again since the call that scheduled it
    conversation,        \* children of the conversation element
    welcomeHidden,       \* welcomeMessage.style.display = 'none'
    recState,            \* the browser's recognizer
    episodeResults,      \* result events since the last recognition.start()
    calls,               \* callAI invocations suspended at an await
    requests,            \* request bodies handed to fetch, in order
    outcomes,            \* per accepted submission, how its callAI ended
    lastEvent            \* whether the handler that ran last was handleSubmit

vars == << phase, apiKey, useMockAI, localStorageKey, speechSupported, marked,
           recognition, micHidden, isListening, isLoading,
           conversationHistory, textInput, status, timers, conversation,
           welcomeHidden, recState, episodeResults, calls, requests, outcomes,
           lastEvent >>

configVars == << apiKey, useMockAI, localStorageKey, speechSupported, marked >>
speechVars == << recognition, micHidden, isListening, recState, episodeResults >>
chatVars   == << isLoading, conversationHistory, conversation, welcomeHidden,
                 calls, requests, outcomes >>

(* ---------------------------- status line ------------------------------ *)

\* the status element and the timer queue, as updateStatus reads and writes them
St == [text |-> status.text, active |-> status.active, timers |-> timers]

\* every pending timer has now been followed by another updateStatus call
Superseded(ts) == [i \in 1..Len(ts) |-> TRUE]

\* updateStatus(message), with the flags as they are when it is called
UpdateStatus(st, message, listening, loading) ==
    [text   |-> message,
     active |-> message # <<>>,
     timers |-> IF message # <<>> /\ ~listening /\ ~loading
                THEN Append(Superseded(st.timers), FALSE)
                ELSE Superseded(st.timers)]

SetStatus(st) ==
    /\ Len(st.timers) <= MaxTimers
    /\ status' = [text |-> st.text, active |-> st.active]
    /\ timers' = st.timers

\* an expiry callback that clears the busy flag along with the message
TimerFiresClearsBusy ==
    /\ phase = "running"
    /\ timers # <<>>
    /\ timers' = Tail(timers)
    /\ status' = [text |-> <<>>, active |-> FALSE]
    /\ isLoading' = FALSE
    /\ lastEvent' = "other"
    /\ UNCHANGED << phase, configVars, speechVars, conversationHistory,
                    conversation, welcomeHidden, calls, requests, outcomes,
                    textInput >>

\* the setTimeout callback of updateStatus
TimerFires ==
    /\ phase = "running"
    /\ timers # <<>>
    /\ timers' = Tail(timers)
    /\ status' = IF ~isListening /\ ~isLoading
                 THEN [text |-> <<>>, active |-> FALSE]
                 ELSE status
    /\ lastEvent' = "other"
    /\ UNCHANGED << phase, configVars, speechVars, chatVars, textInput >>

(* ------------------------------ rendering ------------------------------ *)

\* the element addMessage builds
MessageDiv(text, isUser) ==
    [class  |-> IF isUser THEN "user" ELSE "assistant",
     format |-> IF ~isUser /\ marked THEN "markdown" ELSE "text",
     text   |-> text]

\* marked refuses an input that is undefined or null
MarkedError == "marked(): input parameter is undefined or null"

\* whether addMessage(text, isUser) can throw, can return
AddMessageMayThrow(text, isUser) == ~isUser /\ marked /\ text = Undefined

AddMessage(conv, text, isUser) == Append(conv, MessageDiv(text, isUser))

(* --------------------------- fallback synthesizer ---------------------- *)

Word(w) ==
    CASE w = "meal"  -> <<"m","e","a","l">>
      [] w = "prep"  -> <<"p","r","e","p">>
      [] w = "plan"  -> <<"p","l","a","n">>
      [] w = "kid"   -> <<"k","i","d">>
      [] w = "child" -> <<"c","h","i","l","d">>

\* a synthesizer that matches the keywords as typed
GetMockAIResponseCaseSensitive(userMessage) ==
    IF \/ Includes(userMessage, Word("meal"))
       \/ Includes(userMessage, Word("prep"))
       \/ Includes(userMessage, Word("plan"))
    THEN IF \/ Includes(userMessage, Word("kid"))
            \/ Includes(userMessage, Word("child"))
         THEN ChildTemplate
         ELSE HouseholdTemplate
    ELSE GenericTemplate

\* getMockAIResponse(userMessage)
GetMockAIResponse(userMessage) ==
    LET lowerMessage == ToLowerCase(userMessage) IN
    IF \/ Includes(lowerMessage, Word("meal"))
       \/ Includes(lowerMessage, Word("prep"))
       \/ Includes(lowerMessage, Word("plan"))
    THEN IF \/ Includes(lowerMessage, Word("kid"))
            \/ Includes(lowerMessage, Word("child"))
         THEN ChildTemplate
         ELSE HouseholdTemplate
    ELSE GenericTemplate

(* -------------------------------- callAI ------------------------------- *)

Turn(role, content) == [role |-> role, content |-> content]

\* a transcript that keeps only the newest turn
PushTurnReplacing(history, turn) == <<turn>>

\* state.conversationHistory.push(turn)
PushTurn(history, turn) == Append(history, turn)

\* a request that replays only the newest turn
BuildMessagesLastOnly(history) ==
    << Turn("system", SYSTEM_PROMPT), history[Len(history)] >>

\* [{role: 'system', content: SYSTEM_PROMPT}, ...state.conversationHistory]
BuildMessages(history) == << Turn("system", SYSTEM_PROMPT) >> \o history

\* a client that always goes to the network
UseMockNever == FALSE

\* CONFIG.useMockAI || !CONFIG.apiKey
UseMock == useMockAI \/ apiKey = <<>>

\* a finally block that leaves the flag as it found it
FinallyKeepsLoading(st) ==
    [loading |-> isLoading, st |-> UpdateStatus(st, <<>>, isListening, isLoading)]

\* finally { state.isLoading = false; updateStatus(''); }
Finally(st) ==
    [loading |-> FALSE, st |-> UpdateStatus(st, <<>>, isListening, FALSE)]

\* an addMessage that throws only after it appended the element
DeliverKeepsFailedMessage(conv, st, aiResponse, thrown) ==
    IF thrown
    THEN [conv |-> AddMessage(AddMessage(conv, aiResponse, FALSE), Apology, FALSE),
          st   |-> UpdateStatus(st, MsgSubmitError(MarkedError), isListening, FALSE)]
    ELSE [conv |-> AddMessage(conv, aiResponse, FALSE),
          st   |-> st]

\* what awaits callAI in handleSubmit: addMessage(aiResponse, false), and the
\* catch branch when that throws
Deliver(conv, st, aiResponse, thrown) ==
    IF thrown
    THEN [conv |-> AddMessage(conv, Apology, FALSE),
          st   |-> UpdateStatus(st, MsgSubmitError(MarkedError), isListening, FALSE)]
    ELSE [conv |-> AddMessage(conv, aiResponse, FALSE),
          st   |-> st]

\* callAI returns aiResponse after pushing it: lines 277-286, then finally
Succeed(c, aiResponse, kind) ==
    \E thrown \in IF AddMessageMayThrow(aiResponse, FALSE) THEN BOOLEAN ELSE {FALSE} :
        LET fin == Finally(St)
            out == Deliver(conversation, fin.st, aiResponse, thrown)
        IN  /\ conversationHistory' =
                   PushTurn(conversationHistory, Turn("assistant", aiResponse))
            /\ isLoading' = fin.loading
            /\ SetStatus(out.st)
            /\ conversation' = out.conv
            /\ welcomeHidden' = TRUE
            /\ outcomes' = [outcomes EXCEPT ![c.id] = kind]

\* a fallback that retries through callAI, which pushes the user turn again
FailRetriesCallAI(c, message) ==
    LET st1 == UpdateStatus(St, MsgFallback, isListening, isLoading)
        aiResponse == GetMockAIResponse(c.userMessage)
        fin == Finally(st1)
        out == Deliver(conversation, fin.st, aiResponse, FALSE)
    IN  /\ isLoading' = fin.loading
        /\ SetStatus(out.st)
        /\ conversation' = out.conv
        /\ welcomeHidden' = TRUE
        /\ outcomes' = [outcomes EXCEPT ![c.id] = "fallback"]
        /\ conversationHistory' =
               PushTurn(conversationHistory, Turn("user", c.userMessage))

\* the catch block of callAI: lines 288-297, then finally
Fail(c, message) ==
    IF ~useMockAI
    THEN LET st1 == UpdateStatus(St, MsgFallback, isListening, isLoading)
             aiResponse == GetMockAIResponse(c.userMessage)
             fin == Finally(st1)
             out == Deliver(conversation, fin.st, aiResponse, FALSE)
         IN  /\ isLoading' = fin.loading
             /\ SetStatus(out.st)
             /\ conversation' = out.conv
             /\ welcomeHidden' = TRUE
             /\ outcomes' = [outcomes EXCEPT ![c.id] = "fallback"]
             /\ UNCHANGED conversationHistory
    ELSE LET fin == Finally(St)
             st1 == UpdateStatus(fin.st, MsgSubmitError(message), isListening,
                                 fin.loading)
         IN  /\ isLoading' = fin.loading
             /\ SetStatus(st1)
             /\ conversation' = AddMessage(conversation, Apology, FALSE)
             /\ welcomeHidden' = TRUE
             /\ outcomes' = [outcomes EXCEPT ![c.id] = "thrown"]
             /\ UNCHANGED conversationHistory

\* await fetch(...) settles
FetchSettles ==
    /\ phase = "running"
    /\ \E c \in calls, outcome \in FetchOutcomes :
        /\ c.stage = "fetch"
        /\ CASE outcome = "networkError" ->
                  /\ Fail(c, "Failed to fetch")
                  /\ calls' = calls \ {c}
             [] outcome = "ok" ->
                  /\ calls' = (calls \ {c}) \cup {[c EXCEPT !.stage = "jsonOk"]}
                  /\ UNCHANGED << isLoading, conversationHistory, conversation,
                                  welcomeHidden, outcomes, status, timers >>
             [] outcome = "notOk" ->
                  /\ calls' = (calls \ {c}) \cup {[c EXCEPT !.stage = "jsonError"]}
                  /\ UNCHANGED << isLoading, conversationHistory, conversation,
                                  welcomeHidden, outcomes, status, timers >>
    /\ lastEvent' = "other"
    /\ UNCHANGED << phase, configVars, speechVars, textInput, requests >>

\* await response.json() settles
JsonSettles ==
    /\ phase = "running"
    /\ \E c \in calls :
        /\ c.stage \in {"jsonOk", "jsonError"}
        /\ calls' = calls \ {c}
        /\ IF c.stage = "jsonOk"
           THEN \E body \in OkBodies :
                  CASE body = "notJson" ->
                         Fail(c, "Unexpected token < in JSON at position 0")
                    [] body = "noChoices" ->
                         Fail(c, "Cannot read properties of undefined (reading '0')")
                    [] body = "noContent" ->
                         Succeed(c, Undefined, "undefined")
                    [] body = "wellFormed" ->
                         \E reply \in Replies : Succeed(c, reply, "api")
           ELSE \E body \in ErrorBodies :
                  CASE body = "notJson" ->
                         Fail(c, "Unexpected token < in JSON at position 0")
                    [] body = "withMessage" ->
                         Fail(c, "Incorrect API key provided")
                    [] body = "withoutMessage" ->
                         Fail(c, "API request failed")
    /\ lastEvent' = "other"
    /\ UNCHANGED << phase, configVars, speechVars, textInput, requests >>

(* ----------------------------- handleSubmit ---------------------------- *)

\* a controller that never refuses
IsBusyNever == FALSE

\* a controller that tests the other flag of state
IsBusyWrongFlag == isListening

\* if (state.isLoading) return;
IsBusy == isLoading

\* lines 338-347, through callAI to its return or to its first await
Accept(userMessage) ==
    LET conv1 == AddMessage(conversation, userMessage, TRUE)
        st1   == UpdateStatus(St, <<>>, isListening, isLoading)
        hist1 == PushTurn(conversationHistory, Turn("user", userMessage))
        messages == BuildMessages(hist1)
    IN  /\ Len(outcomes) < MaxSubmits
        /\ textInput' = <<>>
        /\ welcomeHidden' = TRUE
        /\ conversationHistory' = hist1
        /\ IF UseMock
           THEN LET out == Deliver(conv1, st1, GetMockAIResponse(userMessage), FALSE)
                IN  /\ conversation' = out.conv
                    /\ SetStatus(out.st)
                    /\ outcomes' = Append(outcomes, "mock")
                    /\ UNCHANGED << isLoading, calls, requests >>
           ELSE LET st2 == UpdateStatus(st1, MsgThinking, isListening, isLoading)
                IN  /\ conversation' = conv1
                    /\ SetStatus(st2)
                    /\ isLoading' = TRUE
                    /\ requests' = Append(requests, messages)
                    /\ calls' = calls \cup
                          {[id |-> Len(outcomes) + 1, stage |-> "fetch",
                            userMessage |-> userMessage]}
                    /\ outcomes' = Append(outcomes, "pending")

\* the send button, or Enter in the text field
HandleSubmit ==
    /\ phase = "running"
    /\ lastEvent' = "submit"
    /\ LET userMessage == Trim(textInput) IN
       IF userMessage = <<>>
       THEN /\ SetStatus(UpdateStatus(St, MsgEnterMessage, isListening, isLoading))
            /\ UNCHANGED << chatVars, textInput >>
       ELSE IF IsBusy
            THEN UNCHANGED << chatVars, textInput, status, timers >>
            ELSE Accept(userMessage)
    /\ UNCHANGED << phase, configVars, speechVars >>

\* the user edits the text field
TypeText ==
    /\ phase = "running"
    /\ \E t \in Inputs : textInput' = t
    /\ textInput' # textInput
    /\ lastEvent' = "other"
    /\ UNCHANGED << phase, configVars, speechVars, chatVars, status, timers >>

(* ---------------------------- speech capture --------------------------- *)

\* a stopListening() that clears the flag only when recognition.stop() had a
\* capture to stop
StopListeningOnlyWhenCapturing ==
    IF recognition /\ isListening /\ recState = "capturing"
    THEN [listening |-> FALSE, rec |-> "stopping"]
    ELSE [listening |-> isListening, rec |-> recState]

\* stopListening(), as the pair it leaves: state.isListening and the recognizer;
\* whether recognition.stop() throws or not, the flag is cleared after it
StopListening ==
    IF recognition /\ isListening
    THEN [listening |-> FALSE,
          rec       |-> IF recState = "capturing" THEN "stopping" ELSE recState]
    ELSE [listening |-> isListening, rec |-> recState]

\* startListening(); recognition.start() throws unless the recognizer is idle
StartListening ==
    IF ~recognition
    THEN /\ SetStatus(UpdateStatus(St, MsgNotAvailable, isListening, isLoading))
         /\ UNCHANGED << isListening, recState, episodeResults >>
    ELSE IF recState # "idle"
         THEN /\ SetStatus(UpdateStatus(St, MsgCouldNotStart, isListening, isLoading))
              /\ UNCHANGED << isListening, recState, episodeResults >>
         ELSE /\ recState' = "capturing"
              /\ episodeResults' = 0
              /\ isListening' = TRUE
              /\ SetStatus(UpdateStatus(St, MsgListening, TRUE, isLoading))

\* click on the microphone button
MicClick ==
    /\ phase = "running"
    /\ ~micHidden
    /\ IF isListening
       THEN /\ isListening' = StopListening.listening
            /\ recState' = StopListening.rec
            /\ UNCHANGED << status, timers, episodeResults >>
       ELSE StartListening
    /\ lastEvent' = "other"
    /\ UNCHANGED << phase, configVars, recognition, micHidden, chatVars, textInput >>

\* focus on the text field
InputFocus ==
    /\ phase = "running"
    /\ isListening' = StopListening.listening
    /\ recState' = StopListening.rec
    /\ lastEvent' = "other"
    /\ UNCHANGED << phase, configVars, recognition, micHidden, chatVars, textInput,
                    status, timers, episodeResults >>

\* a recognizer left in continuous mode: it keeps capturing after a result
OnResultContinuous ==
    /\ phase = "running"
    /\ recState \in {"capturing", "stopping"}
    /\ \E transcript \in Transcripts : textInput' = transcript
    /\ SetStatus(UpdateStatus(St, MsgSpeechRecognized, isListening, isLoading))
    /\ episodeResults' = episodeResults + 1
    /\ lastEvent' = "other"
    /\ UNCHANGED << phase, configVars, recognition, micHidden, isListening,
                    recState, chatVars >>

\* recognition.onresult: single shot (continuous = false, interimResults = false)
OnResult ==
    /\ phase = "running"
    /\ recState \in {"capturing", "stopping"}
    /\ \E transcript \in Transcripts : textInput' = transcript
    /\ SetStatus(UpdateStatus(St, MsgSpeechRecognized, isListening, isLoading))
    /\ recState' = "ending"
    /\ episodeResults' = episodeResults + 1
    /\ lastEvent' = "other"
    /\ UNCHANGED << phase, configVars, recognition, micHidden, isListening, chatVars >>

\* recognition.onerror
OnError ==
    /\ phase = "running"
    /\ recState \in {"capturing", "stopping"}
    /\ \E e \in SpeechErrors :
         SetStatus(UpdateStatus(St, MsgSpeechError(e), isListening, isLoading))
    /\ isListening' = StopListening.listening
    /\ recState' = "ending"
    /\ lastEvent' = "other"
    /\ UNCHANGED << phase, configVars, recognition, micHidden, chatVars, textInput,
                    episodeResults >>

\* recognition.onend
OnEnd ==
    /\ phase = "running"
    /\ recState # "idle"
    /\ isListening' = StopListening.listening
    /\ recState' = "idle"
    /\ lastEvent' = "other"
    /\ UNCHANGED << phase, configVars, recognition, micHidden, chatVars, textInput,
                    status, timers, episodeResults >>

(* -------------------------------- startup ------------------------------ *)

\* checkConfiguration(), given what prompt() would return
CheckConfiguration(answer) ==
    IF apiKey = <<>> /\ ~useMockAI
    THEN IF answer # Null /\ Trim(answer) # <<>>
         THEN [apiKey |-> Trim(answer), useMockAI |-> useMockAI,
               stored |-> Trim(answer), message |-> MsgKeySaved]
         ELSE [apiKey |-> apiKey, useMockAI |-> TRUE,
               stored |-> localStorageKey, message |-> MsgMockMode]
    ELSE [apiKey |-> apiKey, useMockAI |-> useMockAI, stored |-> localStorageKey,
          message |-> IF apiKey # <<>> THEN MsgReady ELSE MsgMockMode]

\* DOMContentLoaded: init()
DomContentLoaded ==
    /\ phase = "load"
    /\ phase' = "running"
    /\ recognition' = speechSupported
    /\ micHidden' = ~speechSupported
    /\ \E answer \in PromptAnswers :
         LET cfg == CheckConfiguration(answer) IN
         /\ apiKey' = cfg.apiKey
         /\ useMockAI' = cfg.useMockAI
         /\ localStorageKey' = cfg.stored
         /\ SetStatus(UpdateStatus(St, cfg.message, isListening, isLoading))
    /\ lastEvent' = "other"
    /\ UNCHANGED << speechSupported, marked, isListening, recState, episodeResults,
                    chatVars, textInput >>

(* --------------------------- the specification ------------------------- *)

\* the script has been evaluated: CONFIG and state hold their literals
Init ==
    /\ phase = "load"
    /\ localStorageKey \in StoredKeys
    /\ apiKey = localStorageKey
    /\ useMockAI = FALSE
    /\ speechSupported \in BOOLEAN
    /\ marked \in BOOLEAN
    /\ recognition = FALSE
    /\ micHidden = FALSE
    /\ isListening = FALSE
    /\ isLoading = FALSE
    /\ conversationHistory = <<>>
    /\ textInput = <<>>
    /\ status = [text |-> <<>>, active |-> FALSE]
    /\ timers = <<>>
    /\ conversation = <<>>
    /\ welcomeHidden = FALSE
    /\ recState = "idle"
    /\ episodeResults = 0
    /\ calls = {}
    /\ requests = <<>>
    /\ outcomes = <<>>
    /\ lastEvent = "other"

Next ==
    \/ DomContentLoaded
    \/ TypeText
    \/ HandleSubmit
    \/ FetchSettles
    \/ JsonSettles
    \/ TimerFires
    \/ MicClick
    \/ InputFocus
    \/ OnResult
    \/ OnError
    \/ OnEnd

Spec == Init /\ [][Next]_vars

\* the browser ends every recognizer session it started
FairSpec == Spec /\ WF_vars(OnEnd)

(* ------------------- the fallback synthesizer on its own --------------- *)

\* messages put together from a lead, a meal-planning word and a household
\* word, each present or not, in either order, in mixed case.  One lead is
\* 'CH\u0130LD ', whose lower case 'chi\u0307ld ' holds no household word;
\* one household word is '\u212Aid' (KELVIN SIGN), whose lower case is 'kid'.
None == <<>>
Leads == { None, <<"I"," ","w","a","n","t"," ">>,
           <<"C","H","U+0130","L","D"," ">> }
PlanWords == { <<"m","e","a","l">>, <<"M","E","A","L">>, <<"P","r","e","p">>,
               <<"p","l","a","n">>, <<"p","l","a","n","n","i","n","g">> }
KidWords == { <<"k","i","d">>, <<"K","i","d","s">>, <<"C","H","I","L","D">>,
              <<"c","h","i","l","d","r","e","n">>, <<"U+212A","i","d">> }

Descriptors ==
    [lead : Leads, plan : PlanWords \cup {None}, kid : KidWords \cup {None},
     kidFirst : BOOLEAN]

Build(d) ==
    d.lead \o
    (IF d.kidFirst
     THEN d.kid \o <<" ","f","o","r"," ">> \o d.plan
     ELSE d.plan \o <<" ","f","o","r"," ","m","y"," ">> \o d.kid)

\* 'I want meal prep for my kid'
Sentence ==
    <<"I"," ","w","a","n","t"," ","m","e","a","l"," ","p","r","e","p"," ",
      "f","o","r"," ","m","y"," ","k","i","d">>

FallbackInputs == { Build(d) : d \in Descriptors } \cup { Sentence }

\* what the user types for the second exchange: the sentence, and a message
\* with a household word and no meal-planning word
Retyped ==
    { Sentence,
      Build([lead |-> None, plan |-> None, kid |-> <<"U+212A","i","d">>,
             kidFirst |-> FALSE]) }

\* after startup, in mock mode (the prompt was cancelled) or with a stored
\* credential, the startup message expired, a message typed
FallbackInit ==
    /\ phase = "running"
    /\ \/ localStorageKey = <<>> /\ apiKey = <<>> /\ useMockAI = TRUE
       \/ localStorageKey = <<"s", "k">> /\ apiKey = <<"s", "k">>
             /\ useMockAI = FALSE
    /\ speechSupported = FALSE
    /\ marked \in BOOLEAN
    /\ recognition = FALSE
    /\ micHidden = TRUE
    /\ isListening = FALSE
    /\ isLoading = FALSE
    /\ conversationHistory = <<>>
    /\ textInput \in FallbackInputs
    /\ status = [text |-> <<>>, active |-> FALSE]
    /\ timers = <<>>
    /\ conversation = <<>>
    /\ welcomeHidden = FALSE
    /\ recState = "idle"
    /\ episodeResults = 0
    /\ calls = {}
    /\ requests = <<>>
    /\ outcomes = <<>>
    /\ lastEvent = "other"

\* the user types the second message, once the first was accepted
TypeAgain ==
    /\ phase = "running"
    /\ Len(outcomes) = 1
    /\ \E t \in Retyped : textInput' = t
    /\ textInput' # textInput
    /\ lastEvent' = "other"
    /\ UNCHANGED << phase, configVars, speechVars, chatVars, status, timers >>

\* the synthesizer is reached from both of its call sites, line 251 and
\* line 294, in a first and in a second exchange
FallbackNext ==
    \/ HandleSubmit
    \/ TypeAgain
    \/ FetchSettles
    \/ JsonSettles
    \/ TimerFires

FallbackSpec == FallbackInit /\ [][FallbackNext]_vars

(* ------------------------- vocabulary of the claims -------------------- *)

\* the controller is Idle: no callAI invocation is suspended
Idle == calls = {}

\* accepted submissions so far
Accepted == Len(outcomes)

\* a text that is empty or white space only
IsBlank(s) == \A i \in 1..Len(s) : s[i] \in WhiteSpace

\* the step is a run of handleSubmit
SubmitStep == lastEvent' = "submit"

\* the step settles call c: c is suspended before it and not after it
Settles(c) == c \in calls /\ \A d \in calls' : d.id # c.id

\* the step issues a request
SendsRequest == Len(requests') > Len(requests)

UserTurnCount(turns) == Cardinality({i \in 1..Len(turns) : turns[i].role = "user"})

Alternates(turns) ==
    \A i \in 1..Len(turns) :
        turns[i].role = IF i % 2 = 1 THEN "user" ELSE "assistant"

(* -------------------------------- claims ------------------------------- *)

\* C1: once every call has settled, the transcript holds exactly two turns
\* per accepted submission, alternating user, assistant, in every mode.
C1_TwoTurnsPerSubmission ==
    Idle => /\ Len(conversationHistory) = 2 * Accepted
            /\ Alternates(conversationHistory)

\* C2: the i-th request is the system prompt followed by the whole transcript
\* as it stood when the request was sent: every turn before it, in order, and
\* the newly submitted user turn last (the i-th user turn).
C2_RequestReplaysWholeTranscript ==
    \A i \in 1..Len(requests) :
        LET messages == requests[i]
            n == Len(messages) - 1
        IN  /\ n >= 1
            /\ n <= Len(conversationHistory)
            /\ messages = << Turn("system", SYSTEM_PROMPT) >>
                              \o SubSeq(conversationHistory, 1, n)
            /\ messages[n + 1].role = "user"
            /\ messages[n + 1].content = conversation[2 * i - 1].text
            /\ UserTurnCount(Tail(messages)) = i

\* C2 witness: a second request went out carrying the first exchange whole
C2_Witness ==
    /\ Len(requests) = 2
    /\ Len(requests[2]) = 4
    /\ requests[2][3].role = "assistant"
    /\ requests[2][2].content # requests[2][4].content

\* C3: the second request is [system, first user turn, the reply displayed
\* for the first turn, second user turn], whatever produced the first reply.
C3_SecondRequestCarriesDisplayedReply ==
    Len(requests) >= 2 =>
        requests[2] = << Turn("system", SYSTEM_PROMPT),
                         Turn("user", conversation[1].text),
                         Turn("assistant", conversation[2].text),
                         Turn("user", conversation[3].text) >>

\* C4: never two calls outstanding, and while a call stays outstanding across
\* a step the transcript is not appended to.
C4_OneOutstandingCall ==
    /\ [](Cardinality(calls) <= 1)
    /\ [][(\E c \in calls : ~Settles(c))
             => conversationHistory' = conversationHistory]_vars

\* C4 witness: the second submission's call is outstanding, awaiting the body,
\* after the first one's call settled
C4_Witness ==
    /\ \E c \in calls : c.id = 2 /\ c.stage = "jsonOk"
    /\ outcomes[1] # "pending"

\* C5: a non-empty submit while busy changes neither the transcript, the
\* rendered conversation nor the busy flag and issues no request; and a
\* request is only ever issued by a submit made while not busy, for the text
\* then in the field, so the dropped text is not sent later.
C5_BusySubmitDropped ==
    /\ [][(SubmitStep /\ isLoading /\ ~IsBlank(textInput))
             => UNCHANGED << conversationHistory, conversation, isLoading,
                             requests, calls, outcomes >>]_vars
    /\ [][SendsRequest
             => /\ SubmitStep
                /\ ~isLoading
                /\ Len(requests') = Len(requests) + 1
                /\ LET messages == requests'[Len(requests')]
                   IN  messages[Len(messages)] = Turn("user", Trim(textInput))]_vars

\* C5 witness: handleSubmit has just run on a non-empty text while busy
C5_Witness ==
    /\ lastEvent = "submit"
    /\ isLoading
    /\ ~IsBlank(textInput)
    /\ \E c \in calls : c.userMessage # Trim(textInput)

\* C6: the step that settles a call resets the busy flag; the controller is
\* never busy with no call outstanding; a non-empty submit made when no call
\* is outstanding, as after a failed call, is accepted.
C6_SettleReturnsToIdle ==
    /\ [](isLoading => calls # {})
    /\ [][(\E c \in calls : Settles(c)) => ~isLoading']_vars
    /\ [][(SubmitStep /\ Idle /\ ~IsBlank(textInput))
             => /\ Len(outcomes') = Accepted + 1
                /\ conversation'[Len(conversation) + 1].text = Trim(textInput)]_vars

\* C6 witness: a call failed, and the next submission was accepted
C6_Witness ==
    /\ Accepted = 2
    /\ outcomes[1] = "fallback"
    /\ ~isLoading

\* C7: a submit of empty or white-space-only text changes only the status
\* line, whatever the controller's state.
C7_BlankSubmitOnlySetsStatus ==
    [][(SubmitStep /\ IsBlank(textInput))
          => /\ UNCHANGED << chatVars, textInput, configVars, speechVars, phase >>
             /\ status' = [text |-> MsgEnterMessage, active |-> TRUE]]_vars

\* C7 witness: white space was submitted while a call was outstanding
C7_Witness ==
    /\ lastEvent = "submit"
    /\ status.text = MsgEnterMessage
    /\ textInput # <<>>
    /\ isLoading

\* C8: callAI never rejects, every failed call returns the fallback
\* synthesizer's non-empty response, and handleSubmit's error branch (the
\* apology message) is never taken.
C8_FailureAlwaysFallsBack ==
    /\ \A i \in 1..Accepted :
          outcomes[i] \in {"pending", "mock", "api", "fallback"}
    /\ \A k \in 1..Len(conversation) :
          conversation[k].text \notin {Apology, Undefined, <<>>}

\* C9: the step that settles a failed call leaves the failure visible: the
\* status line shows the fallback or error message, or an apology is rendered.
C9_FailureVisible ==
    [][(\E c \in calls : Settles(c) /\ outcomes'[c.id] \in {"fallback", "thrown"})
          => \/ status'.text = MsgFallback
             \/ (status'.text # <<>> /\ status'.text[1] = "Error: ")
             \/ conversation'[Len(conversation')].text = Apology]_vars

\* C10: every step leaves the transcript unchanged or appends one turn to it.
C10_AppendOnly ==
    [][\/ conversationHistory' = conversationHistory
       \/ /\ Len(conversationHistory') = Len(conversationHistory) + 1
          /\ SubSeq(conversationHistory', 1, Len(conversationHistory))
                = conversationHistory]_vars

\* C10 witness: the transcript has grown over two submissions
C10_Witness ==
    /\ Len(conversationHistory) = 4
    /\ conversationHistory[1].content # conversationHistory[3].content

\* the local path is taken: no credential, or mock mode forced
MockMode == phase = "running" /\ (useMockAI \/ apiKey = <<>>)

\* the step delivers a recognition result
ResultStep == episodeResults' = episodeResults + 1

\* C11: without a credential, or with mock mode forced, no request is ever
\* issued and no call is ever outstanding; an accepted submission renders the
\* user message and the fallback synthesizer's response in the same step.
C11_MockModeStaysLocal ==
    /\ [](MockMode => requests = <<>> /\ calls = {} /\ ~isLoading)
    /\ [][(MockMode /\ SubmitStep /\ ~IsBlank(textInput))
             => /\ Len(conversation') = Len(conversation) + 2
                /\ conversation'[Len(conversation) + 1].text = Trim(textInput)
                /\ conversation'[Len(conversation) + 2].text
                      = GetMockAIResponse(Trim(textInput))
                /\ Len(outcomes') = Accepted + 1
                /\ requests' = requests]_vars

\* C11 witness: two submissions answered locally, the second a spoken one
C11_Witness ==
    /\ MockMode
    /\ Accepted = 2
    /\ Len(conversation) = 4
    /\ conversation[2].text = HouseholdTemplate
    /\ conversation[4].text = ChildTemplate
    /\ requests = <<>>

\* C12: while a call is outstanding the controller is busy; a step that does
\* not settle the call leaves it busy, whatever the event; a non-empty submit
\* made meanwhile is rejected.
C12_BusyUntilSettled ==
    /\ [](calls # {} => isLoading)
    /\ [][(\E c \in calls : ~Settles(c)) => isLoading']_vars
    /\ [][(SubmitStep /\ calls # {} /\ ~IsBlank(textInput))
             => Len(outcomes') = Accepted /\ requests' = requests]_vars

\* C12 witness: a call is still outstanding after a whole speech episode
\* (start, error, end) ran during it
C12_Witness ==
    /\ \E c \in calls : c.stage = "fetch"
    /\ isLoading
    /\ status.text = MsgSpeechError("no-speech")
    /\ recState = "idle"
    /\ ~isListening

\* C13: a recognition result puts the recognized text in the input field and
\* touches neither the transcript, the rendered messages, the busy flag, the
\* requests nor the calls, and is no submission; a recognizer session
\* delivers at most one result.
C13_ResultOnlyFillsInput ==
    /\ [](episodeResults <= 1)
    /\ [][ResultStep
             => /\ textInput' \in Transcripts
                /\ UNCHANGED << chatVars, isListening >>
                /\ lastEvent' # "submit"]_vars

\* C13 witness: a result arrived while a call was outstanding
C13_Witness ==
    /\ episodeResults = 1
    /\ textInput \in Transcripts
    /\ status.text = MsgSpeechRecognized
    /\ calls # {}
    /\ Len(conversation) = 1

\* the step is startListening(): a click on the microphone while Inactive
StartStep == MicClick /\ ~isListening

\* the step is stopListening() by the user: a click while Listening, or focus
StopStep == (MicClick /\ isListening) \/ InputFocus

\* C14 as claimed: start() on an available recognizer always moves Inactive
\* to Listening; error, end and stop() leave isListening false; a Listening
\* episode returns to Inactive.
C14_StartAlwaysListens ==
    /\ [][(StartStep /\ recognition) => isListening']_vars
    /\ [][(OnError \/ OnEnd \/ StopStep) => ~isListening']_vars
    /\ (isListening ~> ~isListening)

\* C14 amended: start() moves Inactive to Listening when the recognizer is
\* available and has no session running; when a session is still running
\* start() throws, the adapter stays Inactive and says it could not start.
\* Error, end and stop() leave isListening false; a Listening episode whose
\* recognizer reports its end returns to Inactive.
C14_SpeechAdapter ==
    /\ [][(StartStep /\ recognition /\ recState = "idle") => isListening']_vars
    /\ [][(StartStep /\ recognition /\ recState # "idle")
             => ~isListening' /\ status'.text = MsgCouldNotStart]_vars
    /\ [][(OnError \/ OnEnd \/ StopStep) => ~isListening']_vars
    /\ (isListening ~> ~isListening)

\* C14 witness: start() was refused while the stopped session had not ended
C14_Witness ==
    /\ status.text = MsgCouldNotStart
    /\ ~isListening
    /\ recState = "stopping"

\* C15: a non-empty status message shown while nothing is in progress (no
\* capture, no recognizer session, no call) has an expiry pending, so that it
\* is cleared when the timer fires; without one, nothing clears it.
C15_StatusExpires ==
    (/\ phase = "running"
     /\ status.text # <<>>
     /\ ~isListening /\ recState = "idle"
     /\ ~isLoading /\ Idle)
        => timers # <<>>

\* the step is an expiry callback that clears a message
ExpiryClears ==
    Len(timers') < Len(timers) /\ status.text # <<>> /\ status'.text = <<>>

\* C17: an expiry that clears a message was scheduled by the updateStatus
\* call that set it: no updateStatus call came after the one that scheduled it.
C17_ExpiryClearsOwnMessage ==
    [][ExpiryClears => ~Head(timers)]_vars

\* the contents of the turns of one role, in order
Contents(turns, role) ==
    LET picked == SelectSeq(turns, LAMBDA t : t.role = role)
    IN  [i \in 1..Len(picked) |-> picked[i].content]

\* the texts of the rendered messages of one class, in order
Rendered(class) ==
    LET picked == SelectSeq(conversation, LAMBDA m : m.class = class)
    IN  [i \in 1..Len(picked) |-> picked[i].text]

\* C18: the transcript holds one user turn per accepted submission, the
\* trimmed submitted texts in submission order; an accepted submit appends
\* the trimmed text of the field, and no other step adds a user turn.
C18_OneUserTurnPerSubmission ==
    /\ [](/\ UserTurnCount(conversationHistory) = Accepted
          /\ Contents(conversationHistory, "user") = Rendered("user"))
    /\ [][Contents(conversationHistory', "user") # Contents(conversationHistory, "user")
             => /\ SubmitStep
                /\ ~IsBlank(textInput)
                /\ Contents(conversationHistory', "user")
                      = Append(Contents(conversationHistory, "user"), Trim(textInput))]_vars

\* C18 witness: two submissions, the first one's call failed and fell back,
\* the second one's succeeded
C18_Witness ==
    /\ outcomes = << "fallback", "api" >>
    /\ Len(conversationHistory) = 3
    /\ Contents(conversationHistory, "user")
          = << <<"M","e","a","l">>, <<"k","i","d"," ","p","l","a","n">> >>

\* C19: the rendered messages alternate user, assistant; each accepted
\* submission has its user message rendered, and its assistant message too
\* unless its call is outstanding, so that at Idle there are two per accepted
\* submission; empty and rejected submits render nothing.
C19_RenderedAlternates ==
    /\ [](/\ \A k \in 1..Len(conversation) :
                conversation[k].class = IF k % 2 = 1 THEN "user" ELSE "assistant"
          /\ Len(conversation) = 2 * Accepted - Cardinality(calls)
          /\ Idle => Len(conversation) = 2 * Accepted)
    /\ [][(SubmitStep /\ (IsBlank(textInput) \/ isLoading))
             => conversation' = conversation]_vars
    /\ [][(\E c \in calls : Settles(c))
             => /\ Len(conversation') = Len(conversation) + 1
                /\ conversation'[Len(conversation')].class = "assistant"]_vars

\* C19 witness: the apology was rendered for a reply that could not be, and
\* a second exchange followed
C19_Witness ==
    /\ Idle
    /\ Len(conversation) = 4
    /\ conversation[2].text = Apology
    /\ conversation[4].text \in Replies

\* the template the claim assigns to a message built from d
Expected(d) ==
    IF d.plan # None
    THEN IF d.kid # None THEN ChildTemplate ELSE HouseholdTemplate
    ELSE GenericTemplate

\* the reply of exchange k was computed by the fallback synthesizer
Synthesized(k) == outcomes[k] \in {"mock", "fallback"}

\* C16: whatever came before it, in forced mock mode and after a failed API
\* call alike, the response of the fallback synthesizer to a message is
\* non-empty and is the child-household template when the message holds a
\* meal-planning word and a household word, the household-size template
\* when it holds a meal-planning word only, the generic template otherwise,
\* whatever the case of the letters; so the same message gets the same
\* response in every state.  'I want meal prep for my kid' gets the
\* child-household template, which asks how many adults are in the
\* household.
C16_FallbackTemplates ==
    \A k \in 1..Len(outcomes) :
        Synthesized(k) =>
            LET message  == conversation[2 * k - 1].text
                response == conversation[2 * k].text
            IN  /\ response # <<>>
                /\ \A d \in Descriptors :
                      message = Trim(Build(d)) => response = Expected(d)
                /\ message = Sentence => response = ChildTemplate

\* C16 witness: the sentence of the claim has been answered by the catch
\* block after a failed API call, as the second exchange, the first one
\* being another message answered otherwise
C16_Witness ==
    /\ Len(outcomes) = 2
    /\ outcomes[2] = "fallback"
    /\ Len(conversation) = 4
    /\ conversation[1].text # Sentence
    /\ conversation[2].text # ChildTemplate
    /\ conversation[3].text = Sentence
    /\ conversation[4].text = ChildTemplate

====
